---- MODULE Spec2Model ----
(***************************************************************************)
(* A model of libavfilter/vf_flip_nvcv.c: the flip_nvcv filter instance,   *)
(* its three callbacks (config_props, filter_frame, uninit) and the        *)
(* resources they touch: the CUDA context stack, the hardware-frame        *)
(* context buffers, the operator handle, the tensor handles and the        *)
(* input/output frames.                                                    *)
(***************************************************************************)
EXTENDS Integers, Sequences, FiniteSets, TLC

\* ------------------------------------------------------------------ bounds
\* calls of config_props / filter_frame explored in one lifecycle
MaxConfigs == 2
MaxFrames == 1

\* --------------------------------------------------------------- constants
NULL == 0
NVCV_SUCCESS == 0
\* any non-success NVCVStatus; CK_NVCV only tests "!= NVCV_SUCCESS"
NVCV_ERROR == 2
AVERROR_ENOMEM == -12
AVERROR_ENOSYS == -38
\* the negative code av_hwframe_ctx_init, av_hwframe_get_buffer and
\* ff_filter_frame hand back when they fail
AVERROR_EINVAL == -22
AV_NOPTS_VALUE == -1

\* pixel formats; priv is zero-filled by the framework and 0 is YUV420P
PixFmts == {"YUV420P", "NV12", "RGB24", "BGR24", "0RGB32", "0BGR32", "RGBA", "BGRA"}
AV_PIX_FMT_ZERO == "YUV420P"

supported_formats == <<"RGB24", "BGR24", "0RGB32", "0BGR32", "RGBA", "BGRA">>

\* the loop of format_is_supported, from index i on
RECURSIVE format_is_supported_from(_, _)
format_is_supported_from(fmt, i) ==
    IF i > Len(supported_formats) THEN FALSE
    ELSE IF supported_formats[i] = fmt THEN TRUE
    ELSE format_is_supported_from(fmt, i + 1)

format_is_supported(fmt) == format_is_supported_from(fmt, 1)

\* desc->flags & AV_PIX_FMT_FLAG_RGB of the pixel format descriptor
PixFmtIsRGB(fmt) == fmt \in {"RGB24", "BGR24", "0RGB32", "0BGR32", "RGBA", "BGRA"}

\* the option "code": AV_OPT_TYPE_INT, default 0, min -1, max 1
FlipCodes == -1 .. 1

\* ------------------------------------------------------------ input domains
\* the hardware-frame contexts the input link may carry: 3 x 2 pixels, in a
\* three-byte, a four-byte and an unsupported planar format
InFrameCtxs == [width : {3}, height : {2}, sw_format : {"RGB24", "BGRA", "YUV420P"}]

\* timestamp and side data of the frames that arrive
InFrameProps == {[pts |-> 10, side_data |-> <<>>], [pts |-> 20, side_data |-> <<"sd">>]}

\* What one CK_NVCV(call) site evaluates.  The macro pastes its argument
\* twice: once in the test and once more as the av_log argument, so a call
\* that reports an error is made a second time.  A run is the sequence of
\* statuses the calls return.
NvcvRuns == {<<NVCV_SUCCESS>>, <<NVCV_ERROR, NVCV_SUCCESS>>, <<NVCV_ERROR, NVCV_ERROR>>}

\* number of calls of a run that succeeded
NvcvSucceeded(run) == Cardinality({i \in 1 .. Len(run) : run[i] = NVCV_SUCCESS})

\* the run left its result object constructed (the last call made succeeded)
NvcvCompleted(run) == run[Len(run)] = NVCV_SUCCESS

\* ------------------------------------------------------------------- images
Rows(h) == 1 .. h
Cols(w) == 1 .. w

\* the pixels of an input frame: every pixel carries distinct channel bytes
FramePixels(w, h) == [r \in Rows(h) |-> [c \in Cols(w) |-> (r - 1) * w + c]]

\* what a pool buffer may hold before the operator writes it
BlankPixels(w, h) == [r \in Rows(h) |-> [c \in Cols(w) |-> 0]]

\* the external flip operator: 0 mirrors rows, 1 mirrors columns, -1 both
cvcudaFlip(img, w, h, code) ==
    [r \in Rows(h) |-> [c \in Cols(w) |->
        img[IF code \in {0, -1} THEN h + 1 - r ELSE r]
           [IF code \in {1, -1} THEN w + 1 - c ELSE c]]]

\* -------------------------------------------------------------------- state
VARIABLES
    s,            \* FlipNvcvContext: the private data of the filter instance
    inlink,       \* the AVHWFramesContext of inlink->hw_frames_ctx
    outlink,      \* outlink->hw_frames_ctx: a buffer id or NULL
    bufs,         \* the hardware-frame contexts allocated so far, by id
    ctxDepth,     \* depth of the CUDA context stack of the calling thread
    ops,          \* per operator handle created: how often it was destroyed
    liveTensors,  \* tensor handles constructed and not released
    downstream,   \* frames queued on the output link by ff_filter_frame
    call,         \* what the last callback did and returned
    configured,   \* the last config_props returned success
    phase,        \* "alive" until uninit has run
    nConfigs,     \* calls of config_props so far
    nFrames       \* calls of filter_frame so far

vars == <<s, inlink, outlink, bufs, ctxDepth, ops, liveTensors, downstream,
          call, configured, phase, nConfigs, nFrames>>

\* a frame that was never allocated
NoFrame == [pts |-> AV_NOPTS_VALUE, side_data |-> <<>>, pixels |-> <<>>,
            width |-> 0, height |-> 0, hw_frames_ctx |-> NULL]

\* the record kept of one callback invocation
NoCall == [op |-> "none", ret |-> 0, pushes |-> 0, pops |-> 0,
           depthBefore |-> 0, bufsBefore |-> 0, opsBefore |-> 0,
           tensorsBefore |-> 0, submissions |-> <<>>,
           in |-> NoFrame, out |-> NoFrame,
           inFreed |-> 0, outAllocated |-> FALSE, outFreed |-> 0,
           outHanded |-> 0, outDelivered |-> 0,
           wrapInFailed |-> FALSE, wrapOutFailed |-> FALSE,
           submitFailed |-> FALSE, copyFailed |-> FALSE]

\* ------------------------------------------------------------ CUDA contexts
\* cuCtxPushCurrent(hw_ctx->cuda_ctx): the device context of the input link
\* becomes the top of the stack
cuCtxPushCurrent(depth) == depth + 1

\* cuCtxPopCurrent: pops the top context; an empty stack is an error that
\* CHECK_CU only logs
cuCtxPopCurrent(depth) == IF depth > 0 THEN depth - 1 ELSE depth

\* 1 when the pop took a context off the stack
cuCtxPopCount(depth) == IF depth > 0 THEN 1 ELSE 0

\* -------------------------------------------------- reference-counted buffers
\* av_hwframe_ctx_alloc: a fresh AVHWFramesContext holding one reference
av_hwframe_ctx_alloc ==
    [refs |-> 1, lost |-> 0, format |-> "NONE", sw_format |-> "NONE",
     width |-> 0, height |-> 0, inited |-> FALSE]

\* av_buffer_ref / av_buffer_unref on buffer id
av_buffer_ref(bs, id) == [bs EXCEPT ![id].refs = @ + 1]
av_buffer_unref(bs, id) == IF id = NULL THEN bs ELSE [bs EXCEPT ![id].refs = @ - 1]

\* a pointer that held a reference goes away (a local at return, a field
\* overwritten) without av_buffer_unref: the reference can never be released
LoseRef(bs, id) == IF id = NULL THEN bs ELSE [bs EXCEPT ![id].lost = @ + 1]

\* -------------------------------------------------------------- config_props
\* OutCtxFill with width and height crossed over
OutCtxFillSwapped(b, in_frame_ctx, out_fmt) ==
    [b EXCEPT !.format = "CUDA", !.sw_format = out_fmt,
              !.width = in_frame_ctx.height, !.height = in_frame_ctx.width]

\* lines 145-148: the fields config_props writes into the output context
OutCtxFill(b, in_frame_ctx, out_fmt) ==
    [b EXCEPT !.format = "CUDA", !.sw_format = out_fmt,
              !.width = in_frame_ctx.width, !.height = in_frame_ctx.height]

\* lines 161-162
RecordFrameSize(priv, in_frame_ctx) ==
    [priv EXCEPT !.frame_w = in_frame_ctx.width, !.frame_h = in_frame_ctx.height]

\* CK_NVCV(cvcudaFlipCreate(&s->flip_handle, 1)): every successful call makes
\* a new operator and stores its handle over the previous value
FlipCreateOps(os, run) == IF NvcvSucceeded(run) > 0 THEN Append(os, 0) ELSE os
FlipCreateHandle(old, os, run) == IF NvcvSucceeded(run) > 0 THEN Len(os) + 1 ELSE old

\* the whole of config_props on the current state; the result is the new
\* value of everything it can change, with its return value
ConfigProps(in_frame_ctx, allocOk, initRet, refOk, createRun) ==
    LET d1   == cuCtxPushCurrent(ctxDepth)
        np   == 1
        base == [s |-> s, outlink |-> outlink, bufs |-> bufs, ops |-> ops,
                 ctxDepth |-> d1, pushes |-> np, pops |-> 0, ret |-> 0]
    IN
    IF ~allocOk
    THEN [base EXCEPT !.ret = AVERROR_ENOMEM]                       \* line 139
    ELSE
    LET id   == Len(bufs) + 1
        s1   == [s EXCEPT !.in_fmt = in_frame_ctx.sw_format,
                          !.out_fmt = in_frame_ctx.sw_format]
        b1   == Append(bufs, OutCtxFill(av_hwframe_ctx_alloc, in_frame_ctx, s1.out_fmt))
    IN
    IF ~format_is_supported(s1.in_fmt) \/ ~format_is_supported(s1.out_fmt)
    THEN [base EXCEPT !.s = s1, !.bufs = LoseRef(b1, id),
                      !.ret = AVERROR_ENOSYS]                       \* lines 153, 158
    ELSE
    LET s2 == RecordFrameSize(s1, in_frame_ctx) IN
    IF initRet < 0
    THEN [base EXCEPT !.s = s2, !.bufs = av_buffer_unref(b1, id),
                      !.ret = initRet]                              \* line 168
    ELSE
    LET b2 == [b1 EXCEPT ![id].inited = TRUE]
        \* line 170: the field is overwritten, its old reference is not released
        b3 == LoseRef(b2, s2.hw_frames_ctx)
        s3 == [s2 EXCEPT !.hw_frames_ctx = id]
        \* line 171: likewise for the output link's field
        b4 == LoseRef(b3, outlink)
    IN
    IF ~refOk
    THEN [base EXCEPT !.s = s3, !.bufs = b4, !.outlink = NULL,
                      !.ret = AVERROR_ENOMEM]                       \* line 173
    ELSE
    LET b5 == av_buffer_ref(b4, id)
        o1 == FlipCreateOps(ops, createRun)
        s4 == [s3 EXCEPT !.flip_handle = FlipCreateHandle(@, ops, createRun),
                         !.layout = "NHWC"]
    IN [base EXCEPT !.s = s4, !.bufs = b5, !.outlink = id, !.ops = o1,
                    !.ctxDepth = cuCtxPopCurrent(d1),
                    !.pops = cuCtxPopCount(d1), !.ret = 0]          \* line 180

config_props ==
    /\ phase = "alive"
    /\ nConfigs < MaxConfigs
    /\ \E allocOk \in BOOLEAN :
       \E initRet \in IF allocOk /\ format_is_supported(inlink.sw_format)
                      THEN {0, AVERROR_EINVAL} ELSE {0} :
       \E refOk \in IF allocOk /\ initRet = 0 THEN BOOLEAN ELSE {TRUE} :
       \E createRun \in IF allocOk /\ initRet = 0 /\ refOk
                        THEN NvcvRuns ELSE {<<NVCV_SUCCESS>>} :
       \E r \in {ConfigProps(inlink, allocOk, initRet, refOk, createRun)} :
            /\ s' = r.s
            /\ outlink' = r.outlink
            /\ bufs' = r.bufs
            /\ ops' = r.ops
            /\ ctxDepth' = r.ctxDepth
            /\ configured' = (r.ret = 0)
            /\ call' = [NoCall EXCEPT !.op = "config_props", !.ret = r.ret,
                                      !.pushes = r.pushes, !.pops = r.pops,
                                      !.depthBefore = ctxDepth,
                                      !.bufsBefore = Len(bufs),
                                      !.opsBefore = Len(ops),
                                      !.tensorsBefore = liveTensors]
    /\ nConfigs' = nConfigs + 1
    /\ UNCHANGED <<inlink, liveTensors, downstream, phase, nFrames>>

\* -------------------------------------------------------------- filter_frame
\* av_frame_alloc: an empty frame
av_frame_alloc == NoFrame

\* av_hwframe_get_buffer(s->hw_frames_ctx, out, 0): a pool buffer of the
\* context's size, holding whatever was in that memory, and a reference to
\* the context
av_hwframe_get_buffer(frame, bs, id, stale) ==
    [frame EXCEPT !.width = bs[id].width, !.height = bs[id].height,
                  !.pixels = stale, !.hw_frames_ctx = id]

\* av_frame_copy_props(out, in): the scalar properties are copied first,
\* then the side data, which is where it can run out of memory
av_frame_copy_props(out, in, ok) ==
    [out EXCEPT !.pts = in.pts, !.side_data = IF ok THEN in.side_data ELSE <<>>]

\* CopyPropsFailed with the result of av_frame_copy_props left unchecked
CopyPropsUnchecked(ret) == FALSE

\* line 258: the test that sends filter_frame to its fail label
CopyPropsFailed(ret) == ret < 0

\* line 252: the flip code handed to cvcudaFlipSubmit
SubmitCode(priv) == priv.flip_code

\* av_frame_free(&out): releases the frame and the reference it holds
FreeOutBufs(bs, out) == av_buffer_unref(bs, out.hw_frames_ctx)

\* FailExit without the av_frame_free(&in) of line 264
FailExitKeepsInput(c, ret) ==
    [c EXCEPT !.ret = ret, !.outFreed = @ + (IF c.outAllocated THEN 1 ELSE 0)]

\* lines 263-266, the fail label: both frames are freed (av_frame_free of a
\* NULL frame does nothing) and ret is returned
FailExit(c, ret) ==
    [c EXCEPT !.ret = ret, !.inFreed = @ + 1,
              !.outFreed = @ + (IF c.outAllocated THEN 1 ELSE 0)]

\* lines 261-262: the input is freed and the output handed to
\* ff_filter_frame, which queues it on the link or, failing that, frees it
\* and returns the error
ForwardExit(c, ffOk) ==
    [c EXCEPT !.ret = IF ffOk THEN 0 ELSE AVERROR_EINVAL, !.inFreed = @ + 1,
              !.outHanded = @ + 1, !.outDelivered = @ + (IF ffOk THEN 1 ELSE 0)]

\* what the output buffer holds once the submitted work has run.  A tensor
\* handle whose construction failed is an uninitialised local: the operator
\* then works on whatever that value designates, never on this frame.
SubmitPixels(out, in, code, inValid, outValid, submitRun, stale) ==
    IF NvcvSucceeded(submitRun) = 0 \/ ~outValid THEN out.pixels
    ELSE cvcudaFlip(IF inValid THEN in.pixels ELSE stale, out.width, out.height, code)

\* the whole of filter_frame on the current state
FilterFrame(in, outAllocOk, getBufRet, stale, wrapInRun, wrapOutRun, submitRun, copyOk, ffOk) ==
    LET c0   == [NoCall EXCEPT !.op = "filter_frame", !.in = in,
                               !.depthBefore = ctxDepth,
                               !.bufsBefore = Len(bufs), !.opsBefore = Len(ops),
                               !.tensorsBefore = liveTensors]
        base == [call |-> c0, bufs |-> bufs, ctxDepth |-> ctxDepth,
                 liveTensors |-> liveTensors, downstream |-> downstream]
    IN
    IF ~outAllocOk
    THEN [base EXCEPT !.call = FailExit(c0, AVERROR_ENOMEM)]        \* line 215
    ELSE
    LET d1 == cuCtxPushCurrent(ctxDepth)
        c1 == [c0 EXCEPT !.outAllocated = TRUE, !.out = av_frame_alloc,
                         !.pushes = 1]
    IN
    IF getBufRet < 0
    THEN [base EXCEPT !.call = FailExit(c1, getBufRet),
                      !.ctxDepth = d1]                              \* line 222
    ELSE
    LET id   == s.hw_frames_ctx
        b1   == av_buffer_ref(bufs, id)
        out1 == av_hwframe_get_buffer(c1.out, bufs, id, stale)
        rgb  == PixFmtIsRGB(s.in_fmt)
        inValid  == NvcvCompleted(wrapInRun)
        outValid == NvcvCompleted(wrapOutRun)
        out2 == IF rgb
                THEN [out1 EXCEPT !.pixels = SubmitPixels(out1, in, SubmitCode(s),
                                       inValid, outValid, submitRun, stale)]
                ELSE out1
        lt1  == IF rgb
                THEN liveTensors + NvcvSucceeded(wrapInRun) + NvcvSucceeded(wrapOutRun)
                ELSE liveTensors
        c2   == IF rgb
                THEN [c1 EXCEPT !.wrapInFailed = ~inValid,
                                !.wrapOutFailed = ~outValid,
                                !.submitFailed = ~NvcvCompleted(submitRun),
                                !.submissions = [i \in 1 .. Len(submitRun) |-> SubmitCode(s)]]
                ELSE c1
        d2   == cuCtxPopCurrent(d1)
        c3   == [c2 EXCEPT !.pops = cuCtxPopCount(d1)]
        ret  == IF copyOk THEN 0 ELSE AVERROR_ENOMEM               \* line 257
        out3 == av_frame_copy_props(out2, in, copyOk)
        c4   == [c3 EXCEPT !.out = out3, !.copyFailed = ~copyOk]
    IN
    IF CopyPropsFailed(ret)
    THEN [base EXCEPT !.call = FailExit(c4, ret), !.bufs = FreeOutBufs(b1, out3),
                      !.ctxDepth = d2, !.liveTensors = lt1]         \* line 259
    ELSE [base EXCEPT !.call = ForwardExit(c4, ffOk),
                      !.bufs = IF ffOk THEN b1 ELSE FreeOutBufs(b1, out3),
                      !.ctxDepth = d2, !.liveTensors = lt1,
                      !.downstream = IF ffOk THEN @ + 1 ELSE @]     \* line 262

\* the frames the input link can carry once it is configured
InFrames ==
    {[pts |-> p.pts, side_data |-> p.side_data,
      pixels |-> FramePixels(inlink.width, inlink.height),
      width |-> inlink.width, height |-> inlink.height,
      hw_frames_ctx |-> NULL] : p \in InFrameProps}

\* what a pool buffer of the output context may hold when it is handed out
PoolContents == {BlankPixels(inlink.width, inlink.height)}

filter_frame ==
    /\ phase = "alive"
    /\ configured
    /\ nFrames < MaxFrames
    /\ \E in \in InFrames, outAllocOk \in BOOLEAN :
       \E getBufRet \in IF outAllocOk THEN {0, AVERROR_EINVAL} ELSE {0} :
       \E stale \in IF outAllocOk /\ getBufRet = 0
                    THEN PoolContents ELSE {BlankPixels(inlink.width, inlink.height)} :
       \E wrapInRun, wrapOutRun, submitRun \in
             IF outAllocOk /\ getBufRet = 0 THEN NvcvRuns ELSE {<<NVCV_SUCCESS>>} :
       \E copyOk \in IF outAllocOk /\ getBufRet = 0 THEN BOOLEAN ELSE {TRUE} :
       \E ffOk \in IF outAllocOk /\ getBufRet = 0 /\ copyOk THEN BOOLEAN ELSE {TRUE} :
         \* the library rejects a submission on a NULL operator handle
         /\ s.flip_handle = NULL => NvcvSucceeded(submitRun) = 0
         /\ \E r \in {FilterFrame(in, outAllocOk, getBufRet, stale,
                                  wrapInRun, wrapOutRun, submitRun, copyOk, ffOk)} :
               /\ call' = r.call
               /\ bufs' = r.bufs
               /\ ctxDepth' = r.ctxDepth
               /\ liveTensors' = r.liveTensors
               /\ downstream' = r.downstream
    /\ nFrames' = nFrames + 1
    /\ UNCHANGED <<s, inlink, outlink, ops, configured, phase, nConfigs>>

\* -------------------------------------------------------------------- uninit
\* nvcvOperatorDestroy(handle): a NULL handle is ignored
nvcvOperatorDestroy(os, handle) ==
    IF handle = NULL THEN os ELSE [os EXCEPT ![handle] = @ + 1]

uninit ==
    /\ phase = "alive"
    /\ ops' = nvcvOperatorDestroy(ops, s.flip_handle)
    /\ phase' = "destroyed"
    /\ call' = [NoCall EXCEPT !.op = "uninit", !.depthBefore = ctxDepth,
                              !.bufsBefore = Len(bufs), !.opsBefore = Len(ops),
                              !.tensorsBefore = liveTensors]
    /\ UNCHANGED <<s, inlink, outlink, bufs, ctxDepth, liveTensors, downstream,
                   configured, nConfigs, nFrames>>

\* ------------------------------------------------------------- specification
\* priv is allocated zero-filled; the option "code" is set before any callback
Init ==
    /\ \E code \in FlipCodes :
         s = [in_fmt |-> AV_PIX_FMT_ZERO, out_fmt |-> AV_PIX_FMT_ZERO,
              frame_w |-> 0, frame_h |-> 0, hw_frames_ctx |-> NULL,
              flip_handle |-> NULL, layout |-> "", flip_code |-> code]
    /\ inlink \in InFrameCtxs
    /\ outlink = NULL
    /\ bufs = <<>>
    /\ ctxDepth = 0
    /\ ops = <<>>
    /\ liveTensors = 0
    /\ downstream = 0
    /\ call = NoCall
    /\ configured = FALSE
    /\ phase = "alive"
    /\ nConfigs = 0
    /\ nFrames = 0

Next == config_props \/ filter_frame \/ uninit

Spec == Init /\ [][Next]_vars

\* ------------------------------------------------------------------- claims
LastWasHandler == call.op \in {"config_props", "filter_frame"}
LastWasFrame == call.op = "filter_frame"
LastWasConfig == call.op = "config_props"

\* C1: whenever config_props or filter_frame has returned, it popped as many
\* CUDA contexts as it pushed, and the context stack is as deep as it was
\* when the call began.
C1_PushPopSymmetric ==
    LastWasHandler => call.pops = call.pushes /\ ctxDepth = call.depthBefore

\* C2: a filter_frame call in which a tensor wrap, the submission or the
\* metadata copy failed returns a failure code, has freed the input frame
\* and the output frame, and has not handed the output frame downstream.
C2_FailureReleasesBothFrames ==
    (LastWasFrame /\ (call.wrapInFailed \/ call.wrapOutFailed
                        \/ call.submitFailed \/ call.copyFailed))
        => /\ call.ret < 0
           /\ call.inFreed = 1
           /\ call.outFreed = 1
           /\ call.outHanded = 0

\* C3: once uninit has run, every operator handle that was created has been
\* destroyed exactly once.
C3_CreateDestroyOneToOne ==
    phase = "destroyed" => \A h \in 1 .. Len(ops) : ops[h] = 1

\* C4: a config_props call on an unsupported input format returns ENOSYS
\* having created no operator handle, submitted nothing and allocated
\* neither an output frame nor an output hardware-frame context.
C4_UnsupportedFailsBeforeAnyWork ==
    (LastWasConfig /\ ~format_is_supported(inlink.sw_format))
        => /\ call.ret = AVERROR_ENOSYS
           /\ Len(ops) = call.opsBefore
           /\ call.submissions = <<>>
           /\ ~call.outAllocated
           /\ Len(bufs) = call.bufsBefore

\* C5: after a successful config_props the output link's hardware-frame
\* context has the width, height and software format of the input link's,
\* and in_fmt, out_fmt, frame_w and frame_h record those same values.
C5_OutputCtxMatchesInput ==
    configured
        => /\ outlink # NULL
           /\ bufs[outlink].width = inlink.width
           /\ bufs[outlink].height = inlink.height
           /\ bufs[outlink].sw_format = inlink.sw_format
           /\ s.in_fmt = inlink.sw_format
           /\ s.out_fmt = inlink.sw_format
           /\ s.frame_w = inlink.width
           /\ s.frame_h = inlink.height

\* a supported format has just been configured with success, on a context
\* whose width differs from its height
C5_Witness ==
    /\ LastWasConfig /\ call.ret = 0
    /\ format_is_supported(inlink.sw_format)
    /\ inlink.width # inlink.height
    /\ outlink # NULL

\* C6: a frame that filter_frame queued downstream carries the timestamp and
\* the side data of the input frame it was made from, and its metadata copy
\* succeeded.
C6_ForwardedMetadataMatches ==
    (LastWasFrame /\ call.outDelivered = 1)
        => /\ call.out.pts = call.in.pts
           /\ call.out.side_data = call.in.side_data
           /\ ~call.copyFailed

\* a frame with side data was queued downstream
C6_Witness ==
    /\ LastWasFrame /\ call.outDelivered = 1
    /\ call.in.side_data # <<>>
    /\ call.in.pts # AV_NOPTS_VALUE

\* the pixel of the image at row r, column c lands where the flip code says
FlipTarget(code, w, h, r, c) ==
    <<IF code \in {0, -1} THEN h + 1 - r ELSE r,
      IF code \in {1, -1} THEN w + 1 - c ELSE c>>

\* C7: every submission passes the configured flip code, and in a frame
\* queued downstream the input pixel at (r, c) is found at the place the
\* flip code assigns it, its channel bytes unchanged.
C7_ForwardedFrameIsFlipped ==
    (LastWasFrame /\ call.outDelivered = 1)
        => /\ \A i \in 1 .. Len(call.submissions) : call.submissions[i] = s.flip_code
           /\ \A r \in Rows(call.in.height), c \in Cols(call.in.width) :
                LET t == FlipTarget(s.flip_code, call.in.width, call.in.height, r, c)
                IN call.out.pixels[t[1]][t[2]] = call.in.pixels[r][c]

\* C8: when filter_frame has returned, no tensor handle it constructed is
\* still live.
C8_NoTensorHandleOutlivesCall ==
    LastWasFrame => liveTensors = call.tensorsBefore

\* C9: once uninit has run, the instance holds no hardware-frame-context
\* reference and no such reference was dropped without being released.
C9_NoFramesCtxRefLeftAtTeardown ==
    phase = "destroyed"
        => /\ s.hw_frames_ctx = NULL
           /\ \A b \in 1 .. Len(bufs) : bufs[b].lost = 0

\* C10: every filter_frame call frees its input frame exactly once; an
\* output frame that was allocated is either handed to ff_filter_frame or
\* freed, one of the two and only one; a call that returns a failure code
\* has queued no frame downstream.
C10_FramesDisposedExactlyOnce ==
    LastWasFrame
        => /\ call.inFreed = 1
           /\ call.outAllocated => call.outHanded + call.outFreed = 1
           /\ ~call.outAllocated => call.outHanded + call.outFreed = 0
           /\ call.outDelivered <= call.outHanded
           /\ call.ret < 0 => call.outDelivered = 0

\* the metadata copy failed after the output frame had its buffer: both
\* frames went through the fail label
C10_Witness ==
    /\ LastWasFrame /\ call.copyFailed
    /\ call.outAllocated /\ call.outFreed = 1 /\ call.inFreed = 1
    /\ call.ret < 0

====
